---- MODULE Spec2Model ----
(***************************************************************************)
(* Model of the file sinks of vector: the single-file writer FileSink      *)
(* (src/sinks/file.rs), the partitioned router PartitionedFileSink         *)
(* (src/sinks/partitioned_file.rs) and the encoders                        *)
(* (src/sinks/util/encoding.rs).                                           *)
(*                                                                         *)
(* Handlers are pure operators from the state before the call, the call's  *)
(* argument and the outcomes of the underlying I/O to a result record; the *)
(* actions apply them.  The outcome of polling the create future and of    *)
(* the file write/flush is chosen by the environment.                      *)
(***************************************************************************)
EXTENDS Integers, Sequences, FiniteSets, TLC

(* ------------------------------ bounds -------------------------------- *)
\* number of File::create calls explored
MaxOpens == 3
\* number of payloads a destination file may hold
MaxFileLen == 3
\* FramedWrite's backpressure boundary, counted in payloads
BackpressureBoundary == 2
\* distinct payloads offered to the single-file sink
NumLines == 2
\* payloads the cooperative caller of LiveSpec hands over
MaxSends == 3

Lines == 1..NumLines

\* outcome of polling the CreateFuture
OpenOutcomes == {"ready", "notready", "err"}
\* outcome of the file's poll_write / poll_flush
IoOutcomes == {"ok", "notready", "err"}

Min(a, b) == IF a < b THEN a ELSE b

Range(s) == {s[i] : i \in DOMAIN s}

(* ----------------------------- file system ---------------------------- *)
\* the single-file sink's configured path
SinkPath == <<"out", ".log">>

NoFile == [exists |-> FALSE, data |-> <<>>]

(* ------------------------------ FileSink ------------------------------ *)
\* FileSink::new : the writer starts Disconnected, holding nothing
FileSink_new(path) ==
    [path |-> path, state |-> "Disconnected", open |-> 0, buf |-> <<>>]

\* resolve_and_create : File::create(path), numbered by the count of creates
resolve_and_create(path, opens) == [path |-> path, id |-> opens + 1]

\* CreateFuture::poll resolving to a file: the file exists and is truncated
File_create(fs, path) == [fs EXCEPT ![path] = [exists |-> TRUE, data |-> <<>>]]

poll_file_restarts(w, fs, opens, o, opened) ==
    \* faulty variant: a create that is still pending is thrown away and started anew
    LET RECURSIVE loop(_, _, _, _)
        loop(w1, fs1, opens1, opened1) ==
          CASE w1.state = "Disconnected" ->
                 LET fut == resolve_and_create(w1.path, opens1)
                 IN  loop([w1 EXCEPT !.state = "CreatingFile", !.open = fut.id],
                          fs1, opens1 + 1, opened1 + 1)
            [] w1.state = "CreatingFile" ->
                 (CASE o = "ready" ->
                        loop([w1 EXCEPT !.state = "FileProvided", !.buf = <<>>],
                             File_create(fs1, w1.path), opens1, opened1)
                   [] o = "notready" ->
                        [r |-> "NotReady",
                         w |-> [w1 EXCEPT !.open =
                                   resolve_and_create(w1.path, opens1).id],
                         fs |-> fs1, opens |-> opens1 + 1,
                         opened |-> opened1 + 1]
                   [] o = "err" ->
                        [r |-> "Err",
                         w |-> [w1 EXCEPT !.state = "Disconnected", !.open = 0],
                         fs |-> fs1, opens |-> opens1, opened |-> opened1])
            [] w1.state = "FileProvided" ->
                 [r |-> "Ready", w |-> w1, fs |-> fs1, opens |-> opens1,
                  opened |-> opened1]
    IN  loop(w, fs, opens, opened)

\* FileSink::poll_file : the loop over the state; o is what polling the
\* create future yields.  opened counts the creates started by this call.
poll_file(w, fs, opens, o, opened) ==
    LET RECURSIVE loop(_, _, _, _)
        loop(w1, fs1, opens1, opened1) ==
          CASE w1.state = "Disconnected" ->
                 LET fut == resolve_and_create(w1.path, opens1)
                 IN  loop([w1 EXCEPT !.state = "CreatingFile", !.open = fut.id],
                          fs1, opens1 + 1, opened1 + 1)
            [] w1.state = "CreatingFile" ->
                 (CASE o = "ready" ->
                        loop([w1 EXCEPT !.state = "FileProvided", !.buf = <<>>],
                             File_create(fs1, w1.path), opens1, opened1)
                   [] o = "notready" ->
                        [r |-> "NotReady", w |-> w1, fs |-> fs1,
                         opens |-> opens1, opened |-> opened1]
                   [] o = "err" ->
                        [r |-> "Err",
                         w |-> [w1 EXCEPT !.state = "Disconnected", !.open = 0],
                         fs |-> fs1, opens |-> opens1, opened |-> opened1])
            [] w1.state = "FileProvided" ->
                 [r |-> "Ready", w |-> w1, fs |-> fs1, opens |-> opens1,
                  opened |-> opened1]
    IN  loop(w, fs, opens, opened)

(* --------------------- FramedWrite<File, BytesCodec> ------------------- *)
\* payloads the file takes before the outcome io: all of them when io = "ok"
Taken(buf, k, io) == IF io = "ok" THEN Len(buf) ELSE Min(k, Len(buf))

FramedWrite_poll_complete_discards(buf, data, k, io) ==
    \* faulty variant: the buffer is emptied without its payloads reaching the file
    LET n == Taken(buf, k, io)
    IN  [r    |-> CASE io = "ok" -> "Ready"
                    [] io = "notready" -> "NotReady"
                    [] io = "err" -> "Err",
         buf  |-> SubSeq(buf, n + 1, Len(buf)),
         data |-> data,
         wrote |-> 0]

\* FramedWrite::poll_complete : write the buffer out front to back, then
\* flush; the first k payloads are taken before a NotReady or an error
FramedWrite_poll_complete(buf, data, k, io) ==
    LET n == Taken(buf, k, io)
    IN  [r    |-> CASE io = "ok" -> "Ready"
                    [] io = "notready" -> "NotReady"
                    [] io = "err" -> "Err",
         buf  |-> SubSeq(buf, n + 1, Len(buf)),
         data |-> data \o SubSeq(buf, 1, n),
         wrote |-> n]

FramedWrite_start_send_front(buf, data, item, k, io) ==
    \* faulty variant: the item is put at the front of the buffer
    IF Len(buf) >= BackpressureBoundary
    THEN LET pc == FramedWrite_poll_complete(buf, data, k, io)
         IN  CASE pc.r = "Err" ->
                    [r |-> "Err", buf |-> pc.buf, data |-> pc.data,
                     wrote |-> pc.wrote, back |-> <<>>]
               [] pc.r # "Err" /\ Len(pc.buf) >= BackpressureBoundary ->
                    [r |-> "NotReady", buf |-> pc.buf, data |-> pc.data,
                     wrote |-> pc.wrote, back |-> <<item>>]
               [] OTHER ->
                    [r |-> "Ready", buf |-> <<item>> \o pc.buf,
                     data |-> pc.data, wrote |-> pc.wrote, back |-> <<>>]
    ELSE [r |-> "Ready", buf |-> <<item>> \o buf, data |-> data,
          wrote |-> 0, back |-> <<>>]

\* FramedWrite::start_send : at the backpressure boundary try to flush and
\* refuse the item if the buffer is still full; otherwise buffer the item
FramedWrite_start_send(buf, data, item, k, io) ==
    IF Len(buf) >= BackpressureBoundary
    THEN LET pc == FramedWrite_poll_complete(buf, data, k, io)
         IN  CASE pc.r = "Err" ->
                    [r |-> "Err", buf |-> pc.buf, data |-> pc.data,
                     wrote |-> pc.wrote, back |-> <<>>]
               [] pc.r # "Err" /\ Len(pc.buf) >= BackpressureBoundary ->
                    [r |-> "NotReady", buf |-> pc.buf, data |-> pc.data,
                     wrote |-> pc.wrote, back |-> <<item>>]
               [] OTHER ->
                    [r |-> "Ready", buf |-> Append(pc.buf, item),
                     data |-> pc.data, wrote |-> pc.wrote, back |-> <<>>]
    ELSE [r |-> "Ready", buf |-> Append(buf, item), data |-> data,
          wrote |-> 0, back |-> <<>>]

(* ------------------------- impl Sink for FileSink ---------------------- *)
\* the result of a handler: what it returns (ret; back is the payload handed
\* back with NotReady), the writer and the world after it, and what it did
Result(ret, back, w, fs, opens, pf, fw, opened, wrote) ==
    [ret |-> ret, back |-> back, w |-> w, fs |-> fs, opens |-> opens,
     pf |-> pf, fw |-> fw, opened |-> opened, wrote |-> wrote]

Disconnect(w) == [w EXCEPT !.state = "Disconnected", !.open = 0, !.buf = <<>>]

FileSink_start_send_hands_back(w, fs, opens, line, o, k, io) ==
    \* faulty variant: a refused write hands the payload back instead of dropping it
    LET pf == poll_file(w, fs, opens, o, 0)
    IN  CASE pf.r = "Ready" ->
               LET fw == FramedWrite_start_send(pf.w.buf, pf.fs[w.path].data,
                                                line, k, io)
                   fs2 == [pf.fs EXCEPT ![w.path].data = fw.data]
               IN  IF fw.r = "Err"
                   THEN Result("NotReady", <<line>>, Disconnect(pf.w), fs2,
                               pf.opens, pf.r, fw.r, pf.opened, fw.wrote)
                   ELSE Result(fw.r, fw.back, [pf.w EXCEPT !.buf = fw.buf],
                               fs2, pf.opens, pf.r, fw.r, pf.opened, fw.wrote)
          [] pf.r = "NotReady" ->
               Result("NotReady", <<line>>, pf.w, pf.fs, pf.opens, pf.r,
                      "none", pf.opened, 0)
          [] pf.r = "Err" ->
               Result("Panic", <<>>, pf.w, pf.fs, pf.opens, pf.r, "none",
                      pf.opened, 0)

\* FileSink::start_send
FileSink_start_send(w, fs, opens, line, o, k, io) ==
    LET pf == poll_file(w, fs, opens, o, 0)
    IN  CASE pf.r = "Ready" ->
               LET fw == FramedWrite_start_send(pf.w.buf, pf.fs[w.path].data,
                                                line, k, io)
                   fs2 == [pf.fs EXCEPT ![w.path].data = fw.data]
               IN  IF fw.r = "Err"
                   THEN \* the state becomes Disconnected, Ok(AsyncSink::Ready)
                        Result("Ready", <<>>, Disconnect(pf.w), fs2,
                               pf.opens, pf.r, fw.r, pf.opened, fw.wrote)
                   ELSE Result(fw.r, fw.back, [pf.w EXCEPT !.buf = fw.buf],
                               fs2, pf.opens, pf.r, fw.r, pf.opened, fw.wrote)
          [] pf.r = "NotReady" ->
               Result("NotReady", <<line>>, pf.w, pf.fs, pf.opens, pf.r,
                      "none", pf.opened, 0)
          [] pf.r = "Err" ->
               \* Err(_) => unreachable!()
               Result("Panic", <<>>, pf.w, pf.fs, pf.opens, pf.r, "none",
                      pf.opened, 0)

FileSink_poll_complete_eager(w, fs, opens, o, k, io) ==
    \* faulty variant: without the early return for Disconnected
    LET pf == poll_file(w, fs, opens, o, 0)
    IN  CASE pf.r = "Ready" ->
               LET fw == FramedWrite_poll_complete(pf.w.buf,
                                                   pf.fs[w.path].data, k, io)
                   fs2 == [pf.fs EXCEPT ![w.path].data = fw.data]
               IN  IF fw.r = "Err"
                   THEN Result("Ready", <<>>, Disconnect(pf.w), fs2,
                               pf.opens, pf.r, fw.r, pf.opened, fw.wrote)
                   ELSE Result(fw.r, <<>>, [pf.w EXCEPT !.buf = fw.buf],
                               fs2, pf.opens, pf.r, fw.r, pf.opened, fw.wrote)
          [] OTHER ->
               Result(pf.r, <<>>, pf.w, pf.fs, pf.opens, pf.r, "none",
                      pf.opened, 0)

FileSink_poll_complete_propagates(w, fs, opens, o, k, io) ==
    \* faulty variant: a flush failure is returned as an error and the file is kept
    IF w.state = "Disconnected"
    THEN Result("Ready", <<>>, w, fs, opens, "none", "none", 0, 0)
    ELSE LET pf == poll_file(w, fs, opens, o, 0)
         IN  CASE pf.r = "Ready" ->
                    LET fw == FramedWrite_poll_complete(pf.w.buf,
                                                pf.fs[w.path].data, k, io)
                        fs2 == [pf.fs EXCEPT ![w.path].data = fw.data]
                    IN  Result(fw.r, <<>>, [pf.w EXCEPT !.buf = fw.buf],
                               fs2, pf.opens, pf.r, fw.r, pf.opened, fw.wrote)
               [] OTHER ->
                    Result(pf.r, <<>>, pf.w, pf.fs, pf.opens, pf.r, "none",
                           pf.opened, 0)

\* FileSink::poll_complete
FileSink_poll_complete(w, fs, opens, o, k, io) ==
    IF w.state = "Disconnected"
    THEN \* the file is created only after the first event
         Result("Ready", <<>>, w, fs, opens, "none", "none", 0, 0)
    ELSE LET pf == poll_file(w, fs, opens, o, 0)
         IN  CASE pf.r = "Ready" ->
                    LET fw == FramedWrite_poll_complete(pf.w.buf,
                                                pf.fs[w.path].data, k, io)
                        fs2 == [pf.fs EXCEPT ![w.path].data = fw.data]
                    IN  IF fw.r = "Err"
                        THEN Result("Ready", <<>>, Disconnect(pf.w), fs2,
                                    pf.opens, pf.r, fw.r, pf.opened, fw.wrote)
                        ELSE Result(fw.r, <<>>, [pf.w EXCEPT !.buf = fw.buf],
                                    fs2, pf.opens, pf.r, fw.r, pf.opened,
                                    fw.wrote)
               [] OTHER ->
                    \* try_ready! : NotReady and Err(()) are returned as is
                    Result(pf.r, <<>>, pf.w, pf.fs, pf.opens, pf.r, "none",
                           pf.opened, 0)

(* -------------------------------- events ------------------------------- *)
\* A log event of the partitioned sink: an optional field user and the
\* message field msg; an absent field is <<>>, a present one <<value>>.
Users == {"a", "b"}
Msgs == {"hello", "world"}
Option(S) == {<<>>} \cup {<<x>> : x \in S}
Events == [user : Option(Users), msg : {<<m>> : m \in Msgs}]

\* BasicEncoding, as Option<BasicEncoding>
Encodings == Option({"Text", "Json"})

\* LogEvent::is_structured : the log has an explicit field besides the message
is_structured(log) == log.user # <<>>

\* LogEvent::all_fields, serialized: the names and values of the fields
all_fields(log) ==
    (IF log.msg # <<>> THEN <<"msg", log.msg[1]>> ELSE <<>>) \o
    (IF log.user # <<>> THEN <<"user", log.user[1]>> ELSE <<>>)

\* log_event_as_raw_bytes : the first arm takes Json and every structured log
log_event_as_raw_bytes(event, encoding) ==
    IF encoding = <<"Json">> \/ is_structured(event)
    THEN [fmt |-> "json", body |-> all_fields(event), nl |-> FALSE]
    ELSE [fmt |-> "text", body |-> event.msg, nl |-> FALSE]

\* log_event_as_bytes : the raw bytes as Bytes
log_event_as_bytes(event, encoding) == log_event_as_raw_bytes(event, encoding)

\* event_as_string, for a log event: JSON for Json and for a structured log
\* unless the encoding is Text, else the message (lossy, "" if absent)
event_as_string(event, encoding) ==
    IF (is_structured(event) /\ encoding # <<"Text">>)
          \/ encoding = <<"Json">>
    THEN [fmt |-> "json", body |-> all_fields(event), nl |-> FALSE]
    ELSE [fmt |-> "text", body |-> event.msg, nl |-> FALSE]

\* log_event_as_bytes_with_nl : the raw bytes and a trailing newline
log_event_as_bytes_with_nl(event, encoding) ==
    [log_event_as_raw_bytes(event, encoding) EXCEPT !.nl = TRUE]

(* ------------------------------- template ------------------------------ *)
\* Template::render for the template "{{user}}.log": the key, or the
\* missing field
render(event) ==
    IF event.user # <<>>
    THEN [ok |-> TRUE, bytes |-> <<event.user[1], ".log">>, missing |-> {}]
    ELSE [ok |-> FALSE, bytes |-> <<>>, missing |-> {"user"}]

KeyPaths == {<<u, ".log">> : u \in Users}

\* the path made of the closure's fallback value None
NonePath == <<>>

Paths == {SinkPath, NonePath} \cup KeyPaths

(* -------------------------- PartitionedFileSink ------------------------ *)
\* PartitionedFileSink::new : partitions, the map from path to writer,
\* starts empty
PartitionedFileSink_new(encoding) ==
    [encoding |-> encoding, partitions |-> [p \in {} |-> 0]]

\* FileSink::new_with_encoding : a Disconnected writer that encodes events
FileSink_new_with_encoding(path, encoding) ==
    [path |-> path, state |-> "Disconnected", open |-> 0, buf |-> <<>>,
     encoding |-> encoding]

\* start_send of the embedded writer: encode the event with a newline and
\* hand the bytes to FileSink::start_send; NotReady hands the event back
EmbeddedFileSink_start_send(w, fs, opens, event, o, k, io) ==
    [FileSink_start_send(w, fs, opens,
                         log_event_as_bytes_with_nl(event, w.encoding),
                         o, k, io)
        EXCEPT !.back = IF @ = <<>> THEN <<>> ELSE <<event>>]

\* what PartitionedFileSink::start_send returns and leaves behind, given the
\* result res of start_send on its local partition
Routed(r, rendered, path, res) ==
    [ret |-> res.ret, back |-> res.back, r |-> r, fs |-> res.fs,
     opens |-> res.opens, rendered |-> rendered, constructed |-> 1,
     pooled |-> path \in DOMAIN r.partitions,
     dropped |-> res.w, opened |-> res.opened, wrote |-> res.wrote]

\* the bytes the path is made of: the rendered template, or the fallback
\* value None of the unwrap_or_else closure
rendered_bytes(rd) == IF rd.ok THEN rd.bytes ELSE NonePath

\* the rendered path an encoded payload belongs to: the user field of its
\* JSON body (every event with a user field is structured), and no key's
\* path for a payload without one
PathOfPayload(payload) ==
    IF payload.fmt = "json" /\ Len(payload.body) >= 4
    THEN <<payload.body[4], ".log">>
    ELSE NonePath

PartitionedFileSink_start_send_one_path(r, fs, opens, event, o, k, io) ==
    \* faulty variant: every event goes to the path of the first key
    Routed(r, render(event).ok, rendered_bytes(render(event)),
           EmbeddedFileSink_start_send(
               FileSink_new_with_encoding(<<"a", ".log">>, r.encoding),
               fs, opens, event, o, k, io))

\* PartitionedFileSink::start_send : render the path, construct a FileSink
\* for it and offer the event to it.  The closure of unwrap_or_else warns
\* and yields None in place of the rendered bytes; it does not leave
\* start_send.  The FileSink is a local of the call: it is not inserted in
\* partitions and is dropped when the call returns.
PartitionedFileSink_start_send(r, fs, opens, event, o, k, io) ==
    Routed(r, render(event).ok, rendered_bytes(render(event)),
           EmbeddedFileSink_start_send(
               FileSink_new_with_encoding(rendered_bytes(render(event)),
                                          r.encoding),
               fs, opens, event, o, k, io))

\* PartitionedFileSink::poll_complete : poll_complete on every partition of
\* the pool (in some order; each touches its own path), logging an error;
\* whatever the partitions return, the result is Ok(Async::Ready(()))
PartitionedFileSink_poll_complete(r, fs, opens, o, k, io) ==
    LET RECURSIVE for_each(_, _, _, _)
        for_each(todo, ps, fs1, opens1) ==
            IF todo = {}
            THEN [partitions |-> ps, fs |-> fs1, opens |-> opens1]
            ELSE LET p == CHOOSE q \in todo : TRUE
                     res == FileSink_poll_complete(ps[p], fs1, opens1,
                                                   o, k, io)
                 IN  for_each(todo \ {p}, [ps EXCEPT ![p] = res.w], res.fs,
                              res.opens)
        done == for_each(DOMAIN r.partitions, r.partitions, fs, opens)
    IN  [ret |-> "Ready", r |-> [r EXCEPT !.partitions = done.partitions],
         fs |-> done.fs, opens |-> done.opens,
         polled |-> Cardinality(DOMAIN r.partitions)]

(* -------------------------------- state -------------------------------- *)
VARIABLES
    sink,          \* the FileSink of the single-file sink
    files,         \* path -> [exists, data]: the destinations
    opens,         \* File::create calls made so far
    last,          \* the last call on the FileSink and what it did
    everOffered,   \* start_send has been called on the FileSink
    flushFailed,   \* a flush failed and start_send has not been called since
    halted,        \* the process panicked
    cur,           \* LiveSpec: the payload the caller is handing over
    handedBack,    \* LiveSpec: the payloads start_send handed back so far
    router,        \* the PartitionedFileSink
    created,       \* every FileSink the router constructed, as it was dropped
    rlast,         \* the last call on the router and what it did
    held,          \* the event the router handed back, and to which writer
    pending,       \* StreamAck: writers whose accepted event is not yet acked
    acked,         \* StreamAck: writers whose accepted event the acker was told
    delivered,     \* FifoSpec: the payloads written to the file, in order
    enc,           \* EncSpec: an encoder call, its input and its output
    built          \* BuildSpec: what FileSinkConfig::build returned

vars == <<sink, files, opens, last, everOffered, flushFailed, halted, cur,
          handedBack, router, created, rlast, held, pending, acked,
          delivered, enc, built>>

routing == <<router, created, rlast, held, pending, acked>>

writing == <<sink, last, everOffered, flushFailed, cur, handedBack,
             delivered>>

caller == <<cur, handedBack, delivered>>

startup == <<enc, built>>


NoCall == [op |-> "none", line |-> 0, ret |-> "none", back |-> <<>>,
           pre |-> "Disconnected", preOpen |-> 0, preBuf |-> <<>>,
           preData |-> <<>>, preExists |-> FALSE, pf |-> "none",
           fw |-> "none",
           opened |-> 0, wrote |-> 0]

Call(op, line, w, fs, res) ==
    [op |-> op, line |-> line, ret |-> res.ret, back |-> res.back,
     pre |-> w.state, preOpen |-> w.open, preBuf |-> w.buf,
     preData |-> fs[w.path].data, preExists |-> fs[w.path].exists,
     pf |-> res.pf, fw |-> res.fw,
     opened |-> res.opened, wrote |-> res.wrote]

NoRoute == [op |-> "none", event |-> <<>>, ret |-> "none", back |-> <<>>,
            rendered |-> TRUE, constructed |-> 0, opened |-> 0,
            wid |-> 0, open |-> 0, retry |-> <<>>, polled |-> 0,
            poolBefore |-> {}, existedBefore |-> {},
            filesBefore |-> [p \in Paths |-> NoFile]]

\* no encoder call yet
NoEncode == [variant |-> "none", event |-> [user |-> <<>>, msg |-> <<>>],
             encoding |-> <<>>, done |-> FALSE,
             out |-> [fmt |-> "none", body |-> <<>>, nl |-> FALSE]]

\* the FileSink was made by FileSink::new, not by FileSinkConfig::build
NotBuilt == [done |-> FALSE, existed |-> FALSE, healthcheck |-> "none",
             sink |-> "none"]

InitState(fs) ==
    /\ sink = FileSink_new(SinkPath)
    /\ files = fs
    /\ opens = 0
    /\ last = NoCall
    /\ everOffered = FALSE
    /\ flushFailed = FALSE
    /\ halted = FALSE
    /\ cur = 1
    /\ handedBack = {}
    /\ \E encoding \in Encodings : router = PartitionedFileSink_new(encoding)
    /\ created = <<>>
    /\ rlast = NoRoute
    /\ held = <<>>
    /\ pending = {}
    /\ acked = {}
    /\ delivered = <<>>
    /\ built = NotBuilt

InitSinks == InitState([p \in Paths |-> NoFile])

Init == InitSinks /\ enc = NoEncode

\* the handler start_send(line) of the FileSink under outcomes o, k, io
StartSend(line, o, k, io) ==
    LET res == FileSink_start_send(sink, files, opens, line, o, k, io)
    IN  /\ ~halted
        /\ sink' = res.w
        /\ files' = res.fs
        /\ opens' = res.opens
        /\ last' = Call("start_send", line, sink, files, res)
        /\ everOffered' = TRUE
        /\ flushFailed' = FALSE
        /\ halted' = (res.ret = "Panic")

\* the handler poll_complete() of the FileSink under outcomes o, k, io
PollComplete(o, k, io) ==
    LET res == FileSink_poll_complete(sink, files, opens, o, k, io)
    IN  /\ ~halted
        /\ sink' = res.w
        /\ files' = res.fs
        /\ opens' = res.opens
        /\ last' = Call("poll_complete", 0, sink, files, res)
        /\ flushFailed' = (flushFailed \/ (res.pf = "Ready" /\ res.fw = "Err"))
        /\ halted' = halted
        /\ UNCHANGED everOffered

\* the explored part of the state space
Bounded ==
    /\ opens' <= MaxOpens
    /\ \A p \in Paths : Len(files'[p].data) + Len(sink'.buf) <= MaxFileLen

SinkStartSend ==
    \E line \in Lines, o \in OpenOutcomes, k \in 0..BackpressureBoundary,
       io \in IoOutcomes :
        StartSend(line, o, k, io) /\ Bounded
                                  /\ UNCHANGED <<caller, routing, startup>>

SinkPollComplete ==
    \E o \in OpenOutcomes, k \in 0..BackpressureBoundary, io \in IoOutcomes :
        PollComplete(o, k, io) /\ Bounded
                               /\ UNCHANGED <<caller, routing, startup>>

Next == SinkStartSend \/ SinkPollComplete

Spec == Init /\ [][Next]_vars

TypeOK ==
    /\ sink.state \in {"Disconnected", "CreatingFile", "FileProvided"}
    /\ opens \in 0..MaxOpens
    /\ last.ret \in {"none", "Ready", "NotReady", "Err", "Panic"}
(* --------------------- claims on the single FileSink ------------------- *)
\* C1 (lazy open): on a FileSink on which start_send has never been called,
\* every poll_complete returns Ready, leaves the state Disconnected and
\* starts no File::create; no destination file comes to exist.
C1_LazyOpen ==
    ~everOffered =>
        /\ sink.state = "Disconnected"
        /\ sink.open = 0
        /\ opens = 0
        /\ \A p \in Paths : ~files[p].exists
        /\ last.op = "poll_complete" =>
              (last.ret = "Ready" /\ last.opened = 0 /\ last.wrote = 0)

C1_Witness ==
    ~everOffered /\ last.op = "poll_complete" /\ last.ret = "Ready"

\* C2 (rejected while opening): a start_send whose poll of the create future
\* is NotReady returns NotReady with the payload it was given, writes
\* nothing, and leaves the state CreatingFile with the pending create: the
\* one it found, or the one it started itself from Disconnected.  No call
\* made while CreatingFile starts a second create.
C2_RejectedWhileOpening ==
    /\ (last.op = "start_send" /\ last.pf = "NotReady") =>
          /\ last.ret = "NotReady"
          /\ last.back = <<last.line>>
          /\ last.wrote = 0
          /\ files[SinkPath].data = last.preData
          /\ files[SinkPath].exists = last.preExists
          /\ sink.state = "CreatingFile"
          /\ sink.buf = last.preBuf
          /\ sink.open = (IF last.pre = "CreatingFile" THEN last.preOpen
                                                       ELSE opens)
          /\ last.opened = (IF last.pre = "Disconnected" THEN 1 ELSE 0)
    /\ (last.op # "none" /\ last.pre = "CreatingFile") =>
          /\ last.opened = 0
          /\ last.pf = "NotReady" =>
                (sink.state = "CreatingFile" /\ sink.open = last.preOpen)

C2_Witness ==
    /\ last.op = "start_send"
    /\ last.pre = "CreatingFile"
    /\ last.pf = "NotReady"
    /\ last.ret = "NotReady"
    /\ sink.open = last.preOpen

\* C3 (no failure crosses the boundary): start_send returns only Ready or
\* NotReady(payload) and poll_complete only Ready or NotReady; neither
\* returns an error or panics.
C3_NoErrorCrossesBoundary ==
    /\ last.ret \in {"none", "Ready", "NotReady"}
    /\ ~halted

\* C4 (refused write): when the state is FileProvided and the file refuses
\* the write inside start_send, the call returns Ready, hands nothing back,
\* the payload is not written and the state becomes Disconnected with no
\* file held.
C4_RefusedWriteAccepted ==
    (last.op = "start_send" /\ last.pre = "FileProvided" /\ last.fw = "Err") =>
        /\ last.ret = "Ready"
        /\ last.back = <<>>
        /\ sink.state = "Disconnected"
        /\ sink.open = 0
        /\ sink.buf = <<>>
        /\ files[SinkPath].data =
              last.preData \o SubSeq(last.preBuf, 1, last.wrote)

C4_Witness ==
    /\ last.op = "start_send"
    /\ last.pre = "FileProvided"
    /\ last.fw = "Err"
    /\ sink.state = "Disconnected"

\* C5 (failure reversion): once a flush has failed in poll_complete, and
\* until the next start_send, that call and every further poll_complete
\* return Ready, the state is Disconnected with no file held, and no
\* File::create is started.
C5_FailureReversion ==
    flushFailed =>
        /\ sink.state = "Disconnected"
        /\ sink.open = 0
        /\ sink.buf = <<>>
        /\ last.op = "poll_complete"
        /\ last.ret = "Ready"
        /\ last.opened = 0
        /\ last.pre = "Disconnected" => last.wrote = 0

C5_Witness ==
    /\ flushFailed
    /\ last.op = "poll_complete"
    /\ last.pre = "Disconnected"
    /\ opens >= 1
(* ------------- the FileSink under a cooperative caller ----------------- *)
\* The caller hands over the payloads 1..MaxSends in order, offers a payload
\* again until start_send takes it, and polls for completion in between.
\* Every create resolves to a file or is still pending; no write or flush
\* fails.
LiveOpenOutcomes == {"ready", "notready"}
LiveIoOutcomes == {"ok", "notready"}

LiveStartSend(o, k, io) ==
    /\ cur <= MaxSends
    /\ StartSend(cur, o, k, io)
    /\ cur' = IF last'.ret = "Ready" THEN cur + 1 ELSE cur
    /\ handedBack' = handedBack \cup Range(last'.back)
    /\ UNCHANGED <<delivered, routing, startup>>

LivePollComplete(o, k, io) ==
    /\ PollComplete(o, k, io)
    /\ UNCHANGED <<caller, routing, startup>>

LiveSend ==
    \E o \in LiveOpenOutcomes, k \in 0..BackpressureBoundary,
       io \in LiveIoOutcomes : LiveStartSend(o, k, io)

LivePoll ==
    \E o \in LiveOpenOutcomes, k \in 0..BackpressureBoundary,
       io \in LiveIoOutcomes : LivePollComplete(o, k, io)

LiveNext == LiveSend \/ LivePoll

\* the create eventually resolves and the file eventually takes what is
\* written to it, while the caller keeps calling
LiveFairness ==
    /\ WF_vars(LiveStartSend("ready", BackpressureBoundary, "ok"))
    /\ WF_vars(LivePollComplete("ready", BackpressureBoundary, "ok"))

LiveSpec == Init /\ [][LiveNext]_vars /\ LiveFairness

\* C6 (open-then-write liveness): when every create eventually succeeds and
\* the file never fails, each payload the caller keeps offering is
\* eventually taken by start_send, and a later poll_complete returns Ready
\* with the payload in the destination file.
C6_OpenThenWrite ==
    \A l \in 1..MaxSends :
        (cur = l) ~> (/\ cur > l
                      /\ last.op = "poll_complete"
                      /\ last.ret = "Ready"
                      /\ l \in Range(files[SinkPath].data))

C6_Witness ==
    /\ 1 \in handedBack
    /\ cur > 1
    /\ last.op = "poll_complete"
    /\ last.ret = "Ready"
    /\ 1 \in Range(files[SinkPath].data)
(* ------------------------- the partitioned sink ------------------------ *)
\* writers the router constructs in the explored part of the state space
MaxWriters == 3

ExistingFiles(fs) == {p \in Paths : fs[p].exists}

\* StreamAck::start_send (stream_ack(acker) around the sink): an event the
\* inner sink takes is counted as pending
StreamAck_start_send(pend, wid, ret) ==
    IF ret = "Ready" THEN pend \cup {wid} ELSE pend

\* StreamAck::poll_complete : once the inner sink's poll_complete is Ready
\* the acker is told of the pending events
StreamAck_poll_complete(pend, ack, ret) ==
    IF ret = "Ready"
    THEN [pending |-> {}, acked |-> ack \cup pend]
    ELSE [pending |-> pend, acked |-> ack]

\* the state after start_send(event) of the router with the result res
Routing(event, wid, res) ==
    /\ router' = res.r
    /\ files' = res.fs
    /\ opens' = res.opens
    /\ created' = Append(created, res.dropped @@
                                   [event |-> event, ret |-> res.ret])
    /\ pending' = StreamAck_start_send(pending, wid, res.ret)
    /\ acked' = acked
    /\ rlast' = [op |-> "start_send", event |-> <<event>>,
                 ret |-> res.ret, back |-> res.back,
                 rendered |-> res.rendered,
                 constructed |-> res.constructed, opened |-> res.opened,
                 wid |-> wid, open |-> res.opens,
                 retry |-> IF held # <<>> /\ held[1].event = event
                           THEN held ELSE <<>>,
                 polled |-> 0,
                 poolBefore |-> DOMAIN router.partitions,
                 existedBefore |-> ExistingFiles(files),
                 filesBefore |-> files]
    /\ held' = IF res.ret = "NotReady"
               THEN <<[event |-> event, wid |-> wid, open |-> res.opens]>>
               ELSE <<>>
    /\ halted' = (res.ret = "Panic")

\* the handler start_send(event) of the router
Route(event, o, k, io) ==
    /\ ~halted
    /\ Len(created) < MaxWriters
    /\ Routing(event, Len(created) + 1,
               PartitionedFileSink_start_send(router, files, opens, event,
                                              o, k, io))
    /\ UNCHANGED <<writing, startup>>

\* the handler poll_complete() of the router
RouterPollComplete(o, k, io) ==
    LET res == PartitionedFileSink_poll_complete(router, files, opens,
                                                 o, k, io)
    IN  /\ ~halted
        /\ router' = res.r
        /\ files' = res.fs
        /\ opens' = res.opens
        /\ rlast' = [NoRoute EXCEPT !.op = "poll_complete", !.ret = res.ret,
                                    !.polled = res.polled,
                                    !.poolBefore = DOMAIN router.partitions,
                                    !.existedBefore = ExistingFiles(files),
                                    !.filesBefore = files]
        /\ pending' = StreamAck_poll_complete(pending, acked, res.ret).pending
        /\ acked' = StreamAck_poll_complete(pending, acked, res.ret).acked
        /\ UNCHANGED <<created, held, halted, writing, startup>>

RouterStartSend ==
    \E event \in Events, o \in OpenOutcomes, k \in 0..BackpressureBoundary,
       io \in IoOutcomes : Route(event, o, k, io)

RouterPoll ==
    \E o \in OpenOutcomes, k \in 0..BackpressureBoundary, io \in IoOutcomes :
        RouterPollComplete(o, k, io)

RouterNext == RouterStartSend \/ RouterPoll

RouterSpec == Init /\ [][RouterNext]_vars

\* C7 (partition pooling): at most one FileSink is ever constructed per
\* rendered path; later events of that path go to the same instance.
C7_OneWriterPerKey ==
    \A i, j \in DOMAIN created :
        (created[i].path \in KeyPaths /\ created[i].path = created[j].path)
            => i = j

\* C8 (drop on missing key): when rendering fails, start_send hands nothing
\* back, constructs no writer, adds no key to the pool, starts no create and
\* no file comes to exist.
C8_DropOnMissingKey ==
    (rlast.op = "start_send" /\ ~rlast.rendered) =>
        /\ rlast.back = <<>>
        /\ rlast.constructed = 0
        /\ rlast.opened = 0
        /\ DOMAIN router.partitions = rlast.poolBefore
        /\ ExistingFiles(files) = rlast.existedBefore

\* C9 (aggregate completion): the router's poll_complete polls every writer
\* constructed for a key, and returns Ready only when none of them is still
\* CreatingFile or holds unflushed payloads.
C9_AggregateCompletion ==
    (rlast.op = "poll_complete" /\ rlast.ret = "Ready") =>
        /\ rlast.polled =
              Cardinality({created[i].path : i \in DOMAIN created} \cap KeyPaths)
        /\ \A i \in DOMAIN created :
              created[i].path \in KeyPaths =>
                 (created[i].state # "CreatingFile" /\ created[i].buf = <<>>)

\* C10 (backpressure without loss): an event handed back by start_send and
\* submitted again is offered to the same writer and the same pending create.
C10_RetryReachesSameWriter ==
    (rlast.op = "start_send" /\ rlast.retry # <<>> /\ rlast.rendered) =>
        /\ rlast.wid = rlast.retry[1].wid
        /\ rlast.open = rlast.retry[1].open
\* the bytes the router's writers are given for an event
Payload(event) == log_event_as_bytes_with_nl(event, router.encoding)

\* the writers whose start_send took the event
Accepted == {i \in DOMAIN created : created[i].ret = "Ready"}

\* C11 (end-to-end delivery): with no failed open, write or flush, once the
\* router's poll_complete has returned Ready the file of each rendered path
\* holds the payload of every event start_send took for that path.
C11_EndToEndDelivery ==
    (rlast.op = "poll_complete" /\ rlast.ret = "Ready" /\ ~halted) =>
        \A i \in Accepted :
            created[i].path \in KeyPaths =>
                Payload(created[i].event) \in
                    Range(files[created[i].path].data)
\* C12 (acknowledgment ordering): the acker is told of an event only once
\* the writer that took it is neither waiting on a pending create nor
\* holding the payload unflushed.
C12_AckAfterCompletion ==
    \A i \in acked :
        created[i].path \in KeyPaths =>
            /\ created[i].state # "CreatingFile"
            /\ created[i].buf = <<>>
LogEvents == [user : Option(Users), msg : Option(Msgs)]

Variants == {"event_as_string", "log_event_as_bytes",
             "log_event_as_bytes_with_nl"}

Encoded(variant, event, encoding) ==
    CASE variant = "event_as_string" -> event_as_string(event, encoding)
      [] variant = "log_event_as_bytes" -> log_event_as_bytes(event, encoding)
      [] variant = "log_event_as_bytes_with_nl" ->
             log_event_as_bytes_with_nl(event, encoding)

EncInit ==
    /\ InitSinks
    /\ enc \in [variant : Variants, event : LogEvents, encoding : Encodings,
                done : {FALSE}, out : {NoEncode.out}]

\* the call of the encoder on its input
Encode ==
    /\ ~enc.done
    /\ enc' = [enc EXCEPT !.done = TRUE,
                          !.out = Encoded(enc.variant, enc.event, enc.encoding)]
    /\ UNCHANGED <<files, opens, halted, writing, routing, built>>

EncNext == Encode

EncSpec == EncInit /\ [][EncNext]_vars

\* C14 (encoding selection): every encoder variant emits the JSON of all
\* fields exactly when the encoding is Json, or is unset and the log is
\* structured, and otherwise the text of the message field (empty if
\* absent); only the with_nl variant appends a newline.
C14_EncodingSelection ==
    enc.done =>
        LET json == \/ enc.encoding = <<"Json">>
                    \/ (enc.encoding = <<>> /\ is_structured(enc.event))
        IN  /\ json => (enc.out.fmt = "json"
                        /\ enc.out.body = all_fields(enc.event))
            /\ ~json => (enc.out.fmt = "text"
                         /\ enc.out.body = enc.event.msg)
            /\ enc.out.nl = (enc.variant = "log_event_as_bytes_with_nl")
(* ------------------------------- startup ------------------------------- *)
\* file_healthcheck : ok iff the path exists
file_healthcheck(fs, path) == IF fs[path].exists THEN "Ok" ELSE "Err"

\* Path::canonicalize : resolves the path on the file system, an error
\* if it does not exist
canonicalize(fs, path) == IF fs[path].exists THEN "Ok" ELSE "Err"

\* FileSinkConfig::build : the health check, then the sink on the
\* canonical path; `path?` returns the error of canonicalize
FileSinkConfig_build(fs, path) ==
    [done |-> TRUE, existed |-> fs[path].exists,
     healthcheck |-> file_healthcheck(fs, path),
     sink |-> IF canonicalize(fs, path) = "Ok" THEN "Ok" ELSE "Err"]

\* at startup the configured path exists or does not
BuildInit ==
    /\ \E existed \in BOOLEAN :
          InitState([p \in Paths |->
                        IF p = SinkPath /\ existed
                        THEN [exists |-> TRUE, data |-> <<>>] ELSE NoFile])
    /\ enc = NoEncode

Build ==
    /\ ~built.done
    /\ built' = FileSinkConfig_build(files, SinkPath)
    /\ UNCHANGED <<sink, files, opens, last, everOffered, flushFailed, halted,
                   caller, routing, enc>>

\* the sink is called only if build returned one
BuiltStartSend == built.sink = "Ok" /\ SinkStartSend

BuiltPollComplete == built.sink = "Ok" /\ SinkPollComplete

BuildNext == Build \/ BuiltStartSend \/ BuiltPollComplete

BuildSpec == BuildInit /\ [][BuildNext]_vars

\* C15 (failing health check does not stop the sink): when the configured
\* path does not exist at startup, the health check reports failure and
\* build still returns the sink, whose first start_send creates the file.
C15_HealthcheckDoesNotGate ==
    (built.done /\ ~built.existed) =>
        /\ built.healthcheck = "Err"
        /\ built.sink = "Ok"
\* C16 (no terminal state): after a failed create, write or flush the sink
\* is Disconnected with no file and no create in flight, and it can still be
\* called, so that the next start_send starts a fresh create.
C16_NoTerminalState ==
    (last.pf = "Err" \/ last.fw = "Err") =>
        /\ sink.state = "Disconnected"
        /\ sink.open = 0
        /\ ~halted
Created(call) == call.pre # "FileProvided" /\ call.pf = "Ready"

\* what a call put into the file: all of the file if the call created
\* (truncated) it, else what the file holds beyond what it held before
Written(call, after) ==
    IF Created(call) THEN after
    ELSE SubSeq(after, Len(call.preData) + 1, Len(after))

\* the caller offers payload cur and goes on to the next when it is accepted;
\* creates and writes resolve, are pending or fail
FifoStartSend(o, k, io) ==
    /\ cur <= MaxSends
    /\ StartSend(cur, o, k, io)
    /\ Bounded
    /\ cur' = IF last'.ret = "Ready" THEN cur + 1 ELSE cur
    /\ handedBack' = handedBack \cup Range(last'.back)
    /\ delivered' = delivered \o Written(last', files'[SinkPath].data)
    /\ UNCHANGED <<routing, startup>>

FifoPollComplete(o, k, io) ==
    /\ PollComplete(o, k, io)
    /\ Bounded
    /\ delivered' = delivered \o Written(last', files'[SinkPath].data)
    /\ UNCHANGED <<cur, handedBack, routing, startup>>

FifoSend ==
    \E o \in OpenOutcomes, k \in 0..BackpressureBoundary, io \in IoOutcomes :
        FifoStartSend(o, k, io)

FifoPoll ==
    \E o \in OpenOutcomes, k \in 0..BackpressureBoundary, io \in IoOutcomes :
        FifoPollComplete(o, k, io)

FifoNext == FifoSend \/ FifoPoll

FifoSpec == Init /\ [][FifoNext]_vars

Increasing(seq) == \A i, j \in DOMAIN seq : i < j => seq[i] < seq[j]

\* C18 (FIFO within one FileSink): the payloads that reached the file, in
\* the order they reached it, are payloads start_send accepted, in the order
\* of their acceptance, none twice; what is buffered comes after them, and
\* the file holds the last of them.
C18_Fifo ==
    /\ Range(delivered) \subseteq 1..(cur - 1)
    /\ Increasing(delivered \o sink.buf)
    /\ \E n \in 0..Len(delivered) :
          files[SinkPath].data = SubSeq(delivered, n + 1, Len(delivered))

C18_Witness ==
    /\ opens >= 2
    /\ Len(delivered) >= 2
    /\ \E l \in 1..(cur - 1) :
          l \notin Range(delivered) /\ l < delivered[Len(delivered)]
\* C19 (pool contents): the keys of the partitions map are exactly the paths
\* rendered successfully by the start_send calls so far.
C19_PoolContents ==
    DOMAIN router.partitions =
        {created[i].path : i \in DOMAIN created} \cap KeyPaths

\* C20 (failure isolation between partitions): a partition whose create or
\* write fails makes neither start_send nor poll_complete of the router
\* return an error or abort, and the router can still be called for the
\* other partitions.
C20_FailureIsolation ==
    rlast.rendered =>
        /\ rlast.ret \in {"none", "Ready", "NotReady"}
        /\ ~halted
====
